---- MODULE Spec2Model ----
(***************************************************************************)
(* Command-surface discovery (StructureAnalyzer) and cross-repository      *)
(* impact queries (MultiRepoContext).                                      *)
(*                                                                         *)
(* Text is a sequence of characters, so that line splitting, trimming,     *)
(* tokenising and the Makefile target pattern are computed character by    *)
(* character, as str.splitlines, str.strip, str.split and re.match compute *)
(* them. A character is a one-character string; a character that a string *)
(* of this language cannot hold is the string of its Python escape, such   *)
(* as "\\x0b" for the vertical tab.                                        *)
(***************************************************************************)
EXTENDS Naturals, Sequences, FiniteSets, TLC

VARIABLES
    fs,              \* the project directory: the consumed files (never written)
    custom_scripts,  \* StructureAnalyzer.custom_scripts (the CustomScripts record)
    script_commands, \* StructureAnalyzer.script_commands
    custom_commands, \* StructureAnalyzer.custom_commands
    history,         \* the methods called on the analyzer so far, in order
    raised,          \* the exception the last call let escape, or "none"
    results,         \* what each analyze() call that returned handed back, in order
    ctx,             \* the MultiRepoContext
    query,           \* the last query made on ctx: method and repo_name
    out              \* what that query returned

vars == <<fs, custom_scripts, script_commands, custom_commands, history, raised,
          results, ctx, query, out>>

(* ------------------------------ bounds -------------------------------- *)

\* Calls made on one analyzer object.
MaxCalls == 2
\* Characters of an enumerated Makefile.
MaxMakeLen == 5
\* Characters of an enumerated allowlist file.
MaxAllowLen == 5
\* Entries of one dependency list / one pattern's repos list.
MaxDeps == 2

(* ------------------------------- text --------------------------------- *)

Lower == {"a","b","c","d","e","f","g","h","i","j","k","l","m",
          "n","o","p","q","r","s","t","u","v","w","x","y","z"}
Upper == {"A","B","C","D","E","F","G","H","I","J","K","L","M",
          "N","O","P","Q","R","S","T","U","V","W","X","Y","Z"}
Digit == {"0","1","2","3","4","5","6","7","8","9"}

\* [a-zA-Z_] and [a-zA-Z0-9_-] of the target pattern.
IdStart == Lower \cup Upper \cup {"_"}
IdChar == IdStart \cup Digit \cup {"-"}
\* What \s (of a str pattern), str.strip() and str.split() treat as
\* whitespace: the characters for which str.isspace() holds.
Whitespace ==
    {"\t", "\n", "\\x0b", "\f", "\r", "\\x1c", "\\x1d", "\\x1e", "\\x1f", " ",
     "\\x85", "\\xa0", "\\u1680", "\\u2000", "\\u2001", "\\u2002", "\\u2003",
     "\\u2004", "\\u2005", "\\u2006", "\\u2007", "\\u2008", "\\u2009", "\\u200a",
     "\\u2028", "\\u2029", "\\u202f", "\\u205f", "\\u3000"}
\* Where str.splitlines() breaks a line ("\r\n" counts as one break).
LineBreak ==
    {"\n", "\\x0b", "\f", "\r", "\\x1c", "\\x1d", "\\x1e", "\\x85", "\\u2028", "\\u2029"}

Range(s) == {s[i] : i \in DOMAIN s}

\* All sequences over S of length at most n.
SeqsUpTo(S, n) == UNION {[1..k -> S] : k \in 0..n}

RECURSIVE SplitFrom(_, _, _, _)
SplitFrom(s, i, cur, acc) ==
    IF i > Len(s) THEN (IF cur = <<>> THEN acc ELSE Append(acc, cur))
    ELSE IF s[i] \in LineBreak
         THEN IF s[i] = "\r" /\ i < Len(s) /\ s[i + 1] = "\n"
              THEN SplitFrom(s, i + 2, <<>>, Append(acc, cur))
              ELSE SplitFrom(s, i + 1, <<>>, Append(acc, cur))
         ELSE SplitFrom(s, i + 1, Append(cur, s[i]), acc)

\* str.splitlines(): the lines of s, without their line breaks.
splitlines(s) == SplitFrom(s, 1, <<>>, <<>>)

RECURSIVE lstrip(_)
lstrip(s) == IF s # <<>> /\ Head(s) \in Whitespace THEN lstrip(Tail(s)) ELSE s

RECURSIVE rstrip(_)
rstrip(s) ==
    IF s # <<>> /\ s[Len(s)] \in Whitespace THEN rstrip(SubSeq(s, 1, Len(s) - 1)) ELSE s

\* str.strip()
strip(s) == rstrip(lstrip(s))

RECURSIVE TokensFrom(_, _, _, _)
TokensFrom(s, i, cur, acc) ==
    IF i > Len(s) THEN (IF cur = <<>> THEN acc ELSE Append(acc, cur))
    ELSE IF s[i] \in Whitespace
         THEN TokensFrom(s, i + 1, <<>>, IF cur = <<>> THEN acc ELSE Append(acc, cur))
         ELSE TokensFrom(s, i + 1, Append(cur, s[i]), acc)

\* str.split(): the whitespace-delimited tokens of s.
split(s) == TokensFrom(s, 1, <<>>, <<>>)

\* The end of the longest run of characters of class C that starts at i
\* (i - 1 when s[i] is not in C): how a greedy C* consumes.
RECURSIVE RunEnd(_, _, _)
RunEnd(s, i, C) == IF i <= Len(s) /\ s[i] \in C THEN RunEnd(s, i + 1, C) ELSE i - 1

\* A bug variant of the target pattern: no \s*, the colon directly after
\* the name.
MatchNoGap(line) ==
    IF line = <<>> \/ line[1] \notin IdStart THEN <<>>
    ELSE LET i == RunEnd(line, 2, IdChar)
         IN  IF i + 1 <= Len(line) /\ line[i + 1] = ":" THEN SubSeq(line, 1, i)
             ELSE <<>>

\* A bug variant of the target pattern: indentation before the name is
\* skipped (\s* in front of the group).
MatchIndented(line) ==
    LET l == lstrip(line)
    IN  IF l = <<>> \/ l[1] \notin IdStart THEN <<>>
        ELSE LET i == RunEnd(l, 2, IdChar)
                 j == RunEnd(l, i + 1, Whitespace)
             IN  IF j + 1 <= Len(l) /\ l[j + 1] = ":" THEN SubSeq(l, 1, i)
                 ELSE <<>>

\* re.match(r"^([a-zA-Z_][a-zA-Z0-9_-]*)\s*:", line): group 1, or <<>> for no
\* match. The three character classes are disjoint, so the greedy match is
\* the only one.
target_match(line) ==
    IF line = <<>> \/ line[1] \notin IdStart THEN <<>>
    ELSE LET i == RunEnd(line, 2, IdChar)
             j == RunEnd(line, i + 1, Whitespace)
         IN  IF j + 1 <= Len(line) /\ line[j + 1] = ":" THEN SubSeq(line, 1, i)
             ELSE <<>>

(* --------------------------- named commands --------------------------- *)

npm == <<"n","p","m">>
yarn == <<"y","a","r","n">>
pnpm == <<"p","n","p","m">>
bun == <<"b","u","n">>
make == <<"m","a","k","e">>
mise == <<"m","i","s","e">>
poetry == <<"p","o","e","t","r","y">>

(* ------------------------ the project directory ----------------------- *)

\* A file of the project directory is a record whose kind says how reading
\* it ends:
\*   package.json, pyproject.toml : "absent", "unparsable", or "doc" with
\*       doc, the parsed mapping (a mapping of scripts is its key sequence,
\*       in declaration order);
\*   Makefile, .auto-claude-allowlist : "absent", "unreadable", or "text"
\*       with text;
\*   security_defaults.json : "absent"; "oserror" (open fails);
\*       "truncated" (json.load raises JSONDecodeError); "undecodable" (the
\*       bytes are not UTF-8: json.load raises UnicodeDecodeError); "doc"
\*       with type "object" and doc, or with type "array".
\* sh and bash are the names *.sh and *.bash match in the project root.

\* What ConfigParser.read_json / read_toml hand back for no usable document.
None == [none |-> TRUE]

\* Python truthiness of a parsed mapping or None.
Falsy(v) == v = None \/ DOMAIN v = {}

\* dict.get(key, default)
Get(d, key, default) == IF key \in DOMAIN d THEN d[key] ELSE default

read_json(file) == IF file.kind = "doc" THEN file.doc ELSE None

read_toml(file) == IF file.kind = "doc" THEN file.doc ELSE None

read_text(file) == IF file.kind = "text" THEN file.text ELSE <<>>

file_exists(file) == file.kind # "absent"

glob_files(f, ext) == IF ext = "*.sh" THEN f.sh ELSE f.bash

(* ------------------------- StructureAnalyzer -------------------------- *)

\* CustomScripts(): every catalog empty.
NoScripts ==
    [npm_scripts |-> <<>>, make_targets |-> <<>>, poetry_scripts |-> <<>>,
     shell_scripts |-> <<>>, mise_tasks |-> <<>>]

\* StructureAnalyzer.__init__
NewAnalyzer ==
    [custom_scripts |-> NoScripts, script_commands |-> {}, custom_commands |-> {}]

_detect_npm_scripts(a, f) ==
    LET pkg == read_json(f.package_json)
    IN  IF ~Falsy(pkg) /\ "scripts" \in DOMAIN pkg
        THEN [a EXCEPT !.custom_scripts.npm_scripts = pkg.scripts,
                       !.script_commands =
                           IF pkg.scripts # <<>> THEN @ \cup {npm, yarn, pnpm, bun}
                           ELSE @]
        ELSE a

\* The loop over the Makefile's lines: the targets it appends, in line order.
RECURSIVE LineTargets(_, _)
LineTargets(lines, i) ==
    IF i > Len(lines) THEN <<>>
    ELSE LET target == target_match(lines[i])
         IN  (IF target # <<>> /\ target[1] # "." THEN <<target>> ELSE <<>>)
                 \o LineTargets(lines, i + 1)

_detect_makefile_targets(a, f) ==
    IF ~file_exists(f.makefile) THEN a
    ELSE LET content == read_text(f.makefile)
         IN  IF content = <<>> THEN a
             ELSE LET targets == a.custom_scripts.make_targets
                                     \o LineTargets(splitlines(content), 1)
                  IN  [a EXCEPT !.custom_scripts.make_targets = targets,
                                !.script_commands =
                                    IF targets # <<>> THEN @ \cup {make} ELSE @]

_detect_poetry_scripts(a, f) ==
    LET toml == read_toml(f.pyproject)
    IN  IF Falsy(toml) THEN a
        ELSE LET a1 == IF "tool" \in DOMAIN toml /\ "poetry" \in DOMAIN toml.tool
                       THEN [a EXCEPT !.custom_scripts.poetry_scripts =
                                          Get(toml.tool.poetry, "scripts", <<>>)]
                       ELSE a
             IN  IF "project" \in DOMAIN toml /\ "scripts" \in DOMAIN toml.project
                 THEN [a1 EXCEPT !.custom_scripts.poetry_scripts =
                                     @ \o toml.project.scripts]
                 ELSE a1

\* The inner loop of _detect_shell_scripts over one glob's matches.
RECURSIVE AddShellScripts(_, _, _)
AddShellScripts(a, names, i) ==
    IF i > Len(names) THEN a
    ELSE AddShellScripts(
             [a EXCEPT !.custom_scripts.shell_scripts = Append(@, names[i]),
                       !.script_commands = @ \cup {<<".", "/">> \o names[i]}],
             names, i + 1)

_detect_shell_scripts(a, f) ==
    AddShellScripts(AddShellScripts(a, glob_files(f, "*.sh"), 1),
                    glob_files(f, "*.bash"), 1)

detect_custom_scripts(a, f) ==
    _detect_shell_scripts(
        _detect_poetry_scripts(
            _detect_makefile_targets(
                _detect_npm_scripts(a, f), f), f), f)

\* The loop of load_custom_allowlist: the entries the lines add.
AllowlistEntries(lines) ==
    {strip(lines[i]) : i \in {k \in DOMAIN lines :
                                 strip(lines[k]) # <<>> /\ strip(lines[k])[1] # "#"}}

\* A bug variant: the lines are not trimmed.
UntrimmedAllowlist(a, f) ==
    LET lines == splitlines(read_text(f.allowlist))
    IN  [a EXCEPT !.custom_commands =
             @ \cup {lines[i] : i \in {k \in DOMAIN lines :
                                          lines[k] # <<>> /\ lines[k][1] # "#"}}]

load_custom_allowlist(a, f) ==
    LET content == read_text(f.allowlist)
    IN  IF content = <<>> THEN a
        ELSE [a EXCEPT !.custom_commands = @ \cup AllowlistEntries(splitlines(content))]

(* ----------------------- security_defaults.json ----------------------- *)

\* A mapping whose values are read (validation_commands and each category)
\* is the sequence of its entries [key, value] in document order; a value is
\* [t |-> "str", s |-> text], [t |-> "dict", items |-> entries] or
\* [t |-> "num"] (any value that is neither text nor a mapping).

\* What open() + json.load() raise for the defaults file, "none" if they
\* hand back the document.
load_error(file) ==
    CASE file.kind = "oserror" -> "OSError"
      [] file.kind = "truncated" -> "JSONDecodeError"
      [] file.kind = "undecodable" -> "UnicodeDecodeError"
      [] OTHER -> "none"

\* except (OSError, json.JSONDecodeError)
CaughtOnLoad == {"OSError", "JSONDecodeError"}

\* A bug variant: the defaults' entries replace the detected ones.
ReplaceByItems(target, items, i) == IF items = <<>> THEN target ELSE items

\* for x in items: if x not in target: target.append(x)
RECURSIVE AppendNew(_, _, _)
AppendNew(target, items, i) ==
    IF i > Len(items) THEN target
    ELSE AppendNew(IF items[i] \in Range(target) THEN target
                   ELSE Append(target, items[i]),
                   items, i + 1)

\* The command texts the two nested loops over validation_commands reach, in
\* the order they reach them: text values of categories that are mappings.
RECURSIVE TextValues(_, _)
TextValues(items, i) ==
    IF i > Len(items) THEN <<>>
    ELSE (IF items[i].value.t = "str" THEN <<items[i].value.s>> ELSE <<>>)
             \o TextValues(items, i + 1)

RECURSIVE CommandTexts(_, _)
CommandTexts(categories, i) ==
    IF i > Len(categories) THEN <<>>
    ELSE (IF categories[i].value.t = "dict"
          THEN TextValues(categories[i].value.items, 1) ELSE <<>>)
             \o CommandTexts(categories, i + 1)

\* cmd.split()[0] if cmd else "": [exc, v]. Indexing the empty token list
\* of a whitespace-only cmd raises IndexError.
base_cmd(cmd) ==
    IF cmd = <<>> THEN [exc |-> "none", v |-> <<>>]
    ELSE IF split(cmd) = <<>> THEN [exc |-> "IndexError", v |-> <<>>]
         ELSE [exc |-> "none", v |-> split(cmd)[1]]

\* The body of the loops over the command texts: custom_commands as the
\* loop leaves it, and the exception that ended it early, if any.
RECURSIVE AddBaseCommands(_, _, _)
AddBaseCommands(cc, cmds, i) ==
    IF i > Len(cmds) THEN [cc |-> cc, exc |-> "none"]
    ELSE LET b == base_cmd(cmds[i])
         IN  IF b.exc # "none" THEN [cc |-> cc, exc |-> b.exc]
             ELSE AddBaseCommands(IF b.v # <<>> THEN cc \cup {b.v} ELSE cc, cmds, i + 1)

\* _load_security_defaults: the analyzer as the call leaves it and the
\* exception it lets escape ("none" when it returns).
_load_security_defaults(a, f) ==
    IF ~file_exists(f.defaults) THEN [a |-> a, exc |-> "none"]
    ELSE IF load_error(f.defaults) \in CaughtOnLoad THEN [a |-> a, exc |-> "none"]
    ELSE IF load_error(f.defaults) # "none" THEN [a |-> a, exc |-> load_error(f.defaults)]
    ELSE IF f.defaults.type # "object" THEN [a |-> a, exc |-> "AttributeError"]
    ELSE LET data == f.defaults.doc
             cs == Get(data, "custom_scripts", <<>>)
             make_targets == Get(cs, "make_targets", <<>>)
             mise_tasks == Get(cs, "mise_tasks", <<>>)
             a1 == [a EXCEPT !.custom_scripts.make_targets = AppendNew(@, make_targets, 1),
                             !.script_commands =
                                 IF make_targets # <<>> THEN @ \cup {make} ELSE @]
             a2 == [a1 EXCEPT !.custom_scripts.mise_tasks = AppendNew(@, mise_tasks, 1),
                              !.script_commands =
                                  IF mise_tasks # <<>> THEN @ \cup {mise} ELSE @]
             validation_commands == Get(data, "validation_commands", <<>>)
             r == AddBaseCommands(a2.custom_commands,
                                  CommandTexts(validation_commands, 1), 1)
         IN  [a |-> [a2 EXCEPT !.custom_commands = r.cc], exc |-> r.exc]

\* analyze: the three steps in order; a step that raises ends the call.
analyze(a, f) ==
    _load_security_defaults(load_custom_allowlist(detect_custom_scripts(a, f), f), f)

(* ------------------------------ MultiRepoContext ---------------------- *)

\* dependencies and cross_repo_patterns are sequences of entries
\* [key, value] in dict order, keys distinct. A pattern record is a record
\* whose fields are the fields it has.

\* A bug variant: one entry per occurrence of repo_name in a list.
RECURSIVE DependentsPerOccurrence(_, _)
DependentsPerOccurrence(c, repo_name) ==
    IF c.dependencies = <<>> THEN <<>>
    ELSE LET e == Head(c.dependencies)
         IN  [i \in 1..Cardinality({k \in DOMAIN e.value : e.value[k] = repo_name})
                  |-> e.key]
                 \o DependentsPerOccurrence([c EXCEPT !.dependencies = Tail(@)], repo_name)

RECURSIVE get_dependent_repos(_, _)
get_dependent_repos(c, repo_name) ==
    IF c.dependencies = <<>> THEN <<>>
    ELSE LET e == Head(c.dependencies)
         IN  (IF repo_name \in Range(e.value) THEN <<e.key>> ELSE <<>>)
                 \o get_dependent_repos([c EXCEPT !.dependencies = Tail(@)], repo_name)

\* {"pattern": pattern_name, **pattern_info}: a field of pattern_info
\* replaces an earlier one of the same name.
Impact(pattern_name, pattern_info) ==
    [k \in {"pattern"} \cup DOMAIN pattern_info |->
        IF k \in DOMAIN pattern_info THEN pattern_info[k] ELSE pattern_name]

RECURSIVE get_cross_repo_impact(_, _)
get_cross_repo_impact(c, repo_name) ==
    IF c.cross_repo_patterns = <<>> THEN <<>>
    ELSE LET e == Head(c.cross_repo_patterns)
         IN  (IF repo_name \in Range(Get(e.value, "repos", <<>>))
              THEN <<Impact(e.key, e.value)>> ELSE <<>>)
                 \o get_cross_repo_impact([c EXCEPT !.cross_repo_patterns = Tail(@)],
                                          repo_name)

(* ------------------------------- inputs ------------------------------- *)

build == <<"b","u","i","l","d">>
test == <<"t","e","s","t">>
lint == <<"l","i","n","t">>
deploy == <<"d","e","p","l","o","y">>
serve == <<"s","e","r","v","e">>
docker == <<"d","o","c","k","e","r">>
kubectl == <<"k","u","b","e","c","t","l">>
go == <<"g","o">>
run_sh == <<"r","u","n",".","s","h">>
ci_bash == <<"c","i",".","b","a","s","h">>

Absent == [kind |-> "absent"]
TextFile(t) == [kind |-> "text", text |-> t]
DocFile(d) == [kind |-> "doc", type |-> "object", doc |-> d]
Str(t) == [t |-> "str", s |-> t]
Entry(k, v) == [key |-> k, value |-> v]

\* build:  /  .PHONY: build  /    test: build  /  lint:  /  <TAB>do-thing
ExampleMakefile ==
    build \o <<":", "\n">>
    \o <<".","P","H","O","N","Y",":"," ">> \o build \o <<"\n">>
    \o <<" ", " ">> \o test \o <<":", " ">> \o build \o <<"\n">>
    \o lint \o <<":", "\n">>
    \o <<"\t","d","o","-","t","h","i","n","g","\n">>

\* serve :  /  .b:  /  lint:
GapMakefile ==
    serve \o <<" ", ":", "\n", ".", "b", ":", "\n">> \o lint \o <<":">>

\* "docker\n# comment\n\nkubectl\n"
ExampleAllowlist ==
    docker \o <<"\n">> \o <<"#"," ","c","o","m","m","e","n","t","\n">>
    \o <<"\n">> \o kubectl \o <<"\n">>

\* "  go \r\n\t# x\n \nmake"
IndentedAllowlist ==
    <<" ", " ">> \o go \o <<" ", "\r", "\n", "\t", "#", " ", "x", "\n", " ", "\n">> \o make

EmptyProject ==
    [package_json |-> Absent, makefile |-> Absent, pyproject |-> Absent,
     sh |-> <<>>, bash |-> <<>>, allowlist |-> Absent, defaults |-> Absent]

PackageJsonOptions ==
    {Absent, [kind |-> "unparsable"], DocFile(<<>>), DocFile([scripts |-> <<>>]),
     DocFile([scripts |-> <<test, build>>])}

MakefileOptions ==
    {Absent, [kind |-> "unreadable"], TextFile(ExampleMakefile), TextFile(GapMakefile)}

PyprojectOptions ==
    {Absent, [kind |-> "unparsable"],
     DocFile([tool |-> [poetry |-> [scripts |-> <<serve>>]]]),
     DocFile([tool |-> [poetry |-> [name |-> "x"]]]),
     DocFile([project |-> [scripts |-> <<serve>>]]),
     DocFile([tool |-> [poetry |-> [scripts |-> <<serve>>]],
              project |-> [scripts |-> <<serve, lint>>]])}

ShellOptions == {<<<<>>, <<>>>>, <<<<run_sh>>, <<ci_bash>>>>}

AllowlistOptions == {Absent, TextFile(ExampleAllowlist)}

DefaultsOptions ==
    {Absent, [kind |-> "oserror"], [kind |-> "truncated"], [kind |-> "undecodable"],
     [kind |-> "doc", type |-> "array"],
     DocFile(<<>>),
     DocFile([custom_scripts |->
                  [make_targets |-> <<build, deploy, deploy>>,
                   mise_tasks |-> <<<<"a","l","l">>>>]]),
     \* {"go": {"build": "go build ./...", "none": "", "t": "\x0bmake\xa0 test", "n": 3},
     \*  "flat": "docker ps"}
     DocFile([validation_commands |->
                  <<Entry("go", [t |-> "dict", items |->
                        <<Entry("build", Str(go \o <<" ">> \o build \o <<" ",".","/",".",".",".">>)),
                          Entry("none", Str(<<>>)),
                          Entry("t", Str(<<"\\x0b">> \o make \o <<"\\xa0", " ">> \o test)),
                          Entry("n", [t |-> "num"])>>]),
                    Entry("flat", Str(docker \o <<" ", "p", "s">>))>>]),
     \* {"go": {"build": "go build", "blank": "  ", "t": "docker ps"}}
     DocFile([validation_commands |->
                  <<Entry("go", [t |-> "dict", items |->
                        <<Entry("build", Str(go \o <<" ">> \o build)),
                          Entry("blank", Str(<<" ", " ">>)),
                          Entry("t", Str(docker \o <<" ", "p", "s">>))>>])>>])}

\* The project directories analysed: every combination of the manifests
\* whose detectors do not interact, and every combination of the files whose
\* contributions meet in one catalog or set (Makefile and defaults in
\* make_targets, allowlist and defaults in custom_commands).
Projects ==
    {[EmptyProject EXCEPT !.package_json = p, !.pyproject = t, !.sh = s[1], !.bash = s[2]] :
        p \in PackageJsonOptions, t \in PyprojectOptions, s \in ShellOptions}
    \cup
    {[EmptyProject EXCEPT !.package_json = p, !.pyproject = t, !.makefile = m,
                          !.allowlist = l, !.defaults = d] :
        p \in {Absent, DocFile([scripts |-> <<test, build>>])},
        t \in {Absent, DocFile([project |-> [scripts |-> <<serve>>]])},
        m \in MakefileOptions, l \in AllowlistOptions, d \in DefaultsOptions}

\* A letter, a digit, a space, the colon, the dot, two line breaks and a
\* whitespace character that breaks no line.
MakeAlphabet == {"a", "9", " ", ":", ".", "\n", "\\x0b", "\\x1f"}
\* Makefiles analysed besides every text over MakeAlphabet.
ExtraMakefiles ==
    {ExampleMakefile, GapMakefile, <<"_", "x", "\t", ":", ":">>, <<"A", "b", "\r", "\n", ":">>,
     <<"a", "-", "b", "\\xa0", "\\u3000", ":", "\\u2028", "b", "-", "\f", "c", "\\x1c", ":">>}

AllowAlphabet == {"d", "#", " ", "\n", "\r", "\\x0b", "\\x1f"}
\* Allowlist files loaded besides every text over AllowAlphabet.
ExtraAllowlists ==
    {ExampleAllowlist, IndentedAllowlist,
     <<"\\xa0">> \o go \o <<"\\x85", "\\u2003", "#", "x", "\\x1e", "\\x1f">> \o make \o <<" ", "-", "j", "\\u2029">>}

Repos == {"web", "api", "core"}
DepTargets == {"core", "web"}
PatternNames == {"auth-flow", "billing"}

Distinct(s) == \A i, j \in DOMAIN s : s[i] = s[j] => i = j
KeyOrders(S) == {s \in SeqsUpTo(S, Cardinality(S)) : Distinct(s)}
\* The mappings with keys among K and values among V, in every key order.
Mappings(K, V) ==
    UNION {{[i \in DOMAIN ks |-> Entry(ks[i], v[i])] : v \in [DOMAIN ks -> V]} :
               ks \in KeyOrders(K)}

RepoLists == SeqsUpTo(DepTargets, MaxDeps)
PatternRecords ==
    {<<>>, [pattern |-> "shadow"]}
        \cup {[repos |-> l] : l \in RepoLists}
        \cup {[repos |-> l, pattern |-> "shadow"] : l \in RepoLists}

NewContext ==
    [workspace_root |-> "", repos |-> <<>>, dependencies |-> <<>>,
     cross_repo_patterns |-> <<>>, worktree_strategy |-> <<>>]

ExampleContext ==
    [NewContext EXCEPT
        !.dependencies = <<Entry("web", <<"core">>), Entry("api", <<"core">>),
                           Entry("core", <<>>)>>,
        !.cross_repo_patterns = <<Entry("auth-flow", [repos |-> <<"core", "web">>]),
                                  Entry("billing", [repos |-> <<"api">>])>>]

(* ------------------------------- actions ------------------------------ *)

Obj ==
    [custom_scripts |-> custom_scripts, script_commands |-> script_commands,
     custom_commands |-> custom_commands]

NoQuery == [method |-> "none", repo_name |-> ""]

InitAnalyzer ==
    /\ custom_scripts = NewAnalyzer.custom_scripts
    /\ script_commands = NewAnalyzer.script_commands
    /\ custom_commands = NewAnalyzer.custom_commands
    /\ history = <<>>
    /\ raised = "none"
    /\ results = <<>>

Init ==
    /\ fs \in Projects
    /\ InitAnalyzer
    /\ ctx = NewContext
    /\ query = NoQuery
    /\ out = <<>>

InitMake ==
    /\ fs \in {[EmptyProject EXCEPT !.makefile = TextFile(t)] :
                  t \in SeqsUpTo(MakeAlphabet, MaxMakeLen) \cup ExtraMakefiles}
    /\ InitAnalyzer
    /\ ctx = NewContext
    /\ query = NoQuery
    /\ out = <<>>

InitAllow ==
    /\ fs \in {[EmptyProject EXCEPT !.allowlist = TextFile(t)] :
                  t \in SeqsUpTo(AllowAlphabet, MaxAllowLen) \cup ExtraAllowlists}
    /\ InitAnalyzer
    /\ ctx = NewContext
    /\ query = NoQuery
    /\ out = <<>>

InitRepo ==
    /\ fs = EmptyProject
    /\ InitAnalyzer
    /\ ctx \in {[NewContext EXCEPT !.dependencies = d] : d \in Mappings(Repos, RepoLists)}
                  \cup {[NewContext EXCEPT !.cross_repo_patterns = p] :
                            p \in Mappings(PatternNames, PatternRecords)}
                  \cup {ExampleContext}
    /\ query = NoQuery
    /\ out = <<>>

\* analyzer.analyze(): what it returns is recorded as it is at the return.
Analyze ==
    /\ Len(history) < MaxCalls
    /\ LET r == analyze(Obj, fs)
       IN  /\ custom_scripts' = r.a.custom_scripts
           /\ script_commands' = r.a.script_commands
           /\ custom_commands' = r.a.custom_commands
           /\ raised' = r.exc
           /\ results' = IF r.exc = "none" THEN Append(results, r.a) ELSE results
    /\ history' = Append(history, "analyze")
    /\ UNCHANGED <<fs, ctx, query, out>>

\* analyzer.detect_custom_scripts()
DetectCustomScripts ==
    /\ Len(history) < MaxCalls
    /\ LET a == detect_custom_scripts(Obj, fs)
       IN  /\ custom_scripts' = a.custom_scripts
           /\ script_commands' = a.script_commands
           /\ custom_commands' = a.custom_commands
    /\ raised' = "none"
    /\ history' = Append(history, "detect_custom_scripts")
    /\ UNCHANGED <<fs, results, ctx, query, out>>

\* analyzer.load_custom_allowlist()
LoadCustomAllowlist ==
    /\ Len(history) < MaxCalls
    /\ LET a == load_custom_allowlist(Obj, fs)
       IN  /\ custom_scripts' = a.custom_scripts
           /\ script_commands' = a.script_commands
           /\ custom_commands' = a.custom_commands
    /\ raised' = "none"
    /\ history' = Append(history, "load_custom_allowlist")
    /\ UNCHANGED <<fs, results, ctx, query, out>>

\* ctx.get_dependent_repos(repo_name)
GetDependentRepos ==
    \E repo_name \in Repos :
        /\ out' = get_dependent_repos(ctx, repo_name)
        /\ query' = [method |-> "get_dependent_repos", repo_name |-> repo_name]
        /\ UNCHANGED <<fs, custom_scripts, script_commands, custom_commands, history,
                       raised, results, ctx>>

\* ctx.get_cross_repo_impact(repo_name)
GetCrossRepoImpact ==
    \E repo_name \in Repos :
        /\ out' = get_cross_repo_impact(ctx, repo_name)
        /\ query' = [method |-> "get_cross_repo_impact", repo_name |-> repo_name]
        /\ UNCHANGED <<fs, custom_scripts, script_commands, custom_commands, history,
                       raised, results, ctx>>

Next == Analyze \/ DetectCustomScripts \/ LoadCustomAllowlist
NextMake == DetectCustomScripts
NextAllow == LoadCustomAllowlist
NextRepo == GetDependentRepos \/ GetCrossRepoImpact

Spec == Init /\ [][Next]_vars
SpecMake == InitMake /\ [][NextMake]_vars
SpecAllow == InitAllow /\ [][NextAllow]_vars
SpecRepo == InitRepo /\ [][NextRepo]_vars

(* ------------------------------- claims ------------------------------- *)

LastCall == history[Len(history)]

\* analyze() was the last call and it returned.
AnalyzeReturned == history # <<>> /\ LastCall = "analyze" /\ raised = "none"

\* The make targets the defaults file contributes.
DefaultTargets(f) ==
    IF f.defaults.kind = "doc" /\ f.defaults.type = "object"
    THEN Get(Get(f.defaults.doc, "custom_scripts", <<>>), "make_targets", <<>>)
    ELSE <<>>

\* s can be obtained from t by deleting entries (the order kept).
RECURSIVE IsSubseq(_, _)
IsSubseq(s, t) ==
    IF s = <<>> THEN TRUE
    ELSE IF t = <<>> THEN FALSE
    ELSE IF Head(s) = Head(t) THEN IsSubseq(Tail(s), Tail(t))
    ELSE IsSubseq(s, Tail(t))

\* Nothing of analyzer a is missing from analyzer b.
Grows(a, b) ==
    /\ a.script_commands \subseteq b.script_commands
    /\ a.custom_commands \subseteq b.custom_commands
    /\ \A c \in DOMAIN a.custom_scripts :
           IsSubseq(a.custom_scripts[c], b.custom_scripts[c])

\* C1 (as claimed): when analyze has returned, every non-empty catalog has
\* its launcher in script_commands: npm_scripts the four package-manager
\* launchers, make_targets make, poetry_scripts the task runner's launcher,
\* mise_tasks mise.
C1_LaunchersPresent ==
    AnalyzeReturned =>
        /\ custom_scripts.npm_scripts # <<>> => {npm, yarn, pnpm, bun} \subseteq script_commands
        /\ custom_scripts.make_targets # <<>> => make \in script_commands
        /\ custom_scripts.poetry_scripts # <<>> => poetry \in script_commands
        /\ custom_scripts.mise_tasks # <<>> => mise \in script_commands

\* The defaults file gives analyze no document to merge.
DefaultsUnusable == fs.defaults.kind \in {"absent", "oserror", "truncated", "undecodable"}

\* C2 (as claimed): analyze on a fresh analyzer whose defaults file is
\* absent, unreadable or unparsable returns, and returns what it returns
\* with that file absent.
C2_NeverRaises ==
    (history = <<"analyze">> /\ DefaultsUnusable) =>
        /\ raised = "none"
        /\ results = <<analyze(NewAnalyzer, [fs EXCEPT !.defaults = Absent]).a>>

\* C3 (as claimed): two analyze calls on one analyzer object over an
\* unchanged directory return the same catalogs and sets.
C3_Idempotent ==
    (history = <<"analyze", "analyze">> /\ Len(results) = 2) => results[1] = results[2]

\* Every step of analyze, run in order from analyzer a, leaves what the step
\* before it left: nothing is removed on the way to b.
StepsGrow(a, f, b) ==
    LET s1 == _detect_npm_scripts(a, f)
        s2 == _detect_makefile_targets(s1, f)
        s3 == _detect_poetry_scripts(s2, f)
        s4 == _detect_shell_scripts(s3, f)
        s5 == load_custom_allowlist(s4, f)
    IN  /\ Grows(a, s1) /\ Grows(s1, s2) /\ Grows(s2, s3) /\ Grows(s3, s4)
        /\ Grows(s4, s5) /\ Grows(s5, b)

\* C4: no call and no step of analyze removes anything from a catalog or a
\* set (catalog entries keep their relative order), and what an analyze call
\* returns holds everything the same call would have returned with the
\* defaults file absent.
C4_MergeMonotone ==
    [][/\ Grows(Obj, Obj')
       /\ history' = Append(history, "analyze") => StepsGrow(Obj, fs, Obj')
       /\ (history' = Append(history, "analyze") /\ raised' = "none") =>
              Grows(analyze(Obj, [fs EXCEPT !.defaults = Absent]).a, Obj')]_vars

\* The defaults added the target deploy behind the Makefile's build, lint.
C4_Witness ==
    /\ history = <<"analyze">>
    /\ raised = "none"
    /\ fs.makefile = TextFile(ExampleMakefile)
    /\ DefaultTargets(fs) = <<build, deploy, deploy>>
    /\ custom_scripts.make_targets = <<build, lint, deploy>>
    /\ mise \in script_commands

\* The first analyze on the example Makefile returned, no make targets
\* coming from the defaults file.
ExampleMakefileAnalyzed ==
    /\ history = <<"analyze">>
    /\ raised = "none"
    /\ fs.makefile = TextFile(ExampleMakefile)
    /\ DefaultTargets(fs) = <<>>

\* C5 (as claimed): the example Makefile yields build, test, lint and make.
C5_Original ==
    ExampleMakefileAnalyzed =>
        /\ custom_scripts.make_targets = <<build, test, lint>>
        /\ make \in script_commands

\* C5 (amended): the example Makefile yields build, lint, in that order (the
\* .PHONY line and the indented test line contribute nothing), and make.
C5_ExampleTargets ==
    ExampleMakefileAnalyzed =>
        /\ custom_scripts.make_targets = <<build, lint>>
        /\ make \in script_commands

C5_Witness ==
    /\ ExampleMakefileAnalyzed
    /\ results[1].custom_scripts.make_targets = <<build, lint>>

\* The maximal runs of t without a line break: its non-empty lines.
Segments(t) ==
    {SubSeq(t, i, j) : <<i, j>> \in
        {ij \in (1..Len(t)) \X (1..Len(t)) :
            /\ ij[1] <= ij[2]
            /\ \A k \in ij[1]..ij[2] : t[k] \notin LineBreak
            /\ ij[1] = 1 \/ t[ij[1] - 1] \in LineBreak
            /\ ij[2] = Len(t) \/ t[ij[2] + 1] \in LineBreak}}

\* The trimmed text of l, if l is not blank: from its first to its last
\* character that is not whitespace.
Trimmed(l) ==
    {SubSeq(l, i, j) : <<i, j>> \in
        {ij \in (1..Len(l)) \X (1..Len(l)) :
            /\ ij[1] <= ij[2]
            /\ l[ij[1]] \notin Whitespace
            /\ l[ij[2]] \notin Whitespace
            /\ \A k \in 1..Len(l) : (k < ij[1] \/ k > ij[2]) => l[k] \in Whitespace}}

\* C6: load_custom_allowlist leaves in custom_commands exactly the trimmed
\* text of every line that is not blank after trimming and whose trimmed
\* text does not start with #; script_commands and the catalogs stay as
\* they were (empty). The example file gives exactly docker and kubectl.
C6_Allowlist ==
    history # <<>> =>
        /\ custom_commands =
               {c \in UNION {Trimmed(l) : l \in Segments(fs.allowlist.text)} : c[1] # "#"}
        /\ script_commands = {}
        /\ custom_scripts = NoScripts
        /\ fs.allowlist.text = ExampleAllowlist => custom_commands = {docker, kubectl}

C6_Witness ==
    /\ history = <<"load_custom_allowlist">>
    /\ fs.allowlist.text = IndentedAllowlist
    /\ custom_commands = {go, make}

\* C7: get_dependent_repos(repo_name) returns exactly the keys of
\* dependencies whose list contains repo_name, each once, and leaves the
\* context as it was.
C7_Dependents ==
    /\ [](query.method = "get_dependent_repos" =>
            /\ Range(out) = {e.key : e \in {d \in Range(ctx.dependencies) :
                                               query.repo_name \in Range(d.value)}}
            /\ Distinct(out))
    /\ [][ctx' = ctx]_vars

C7_Witness ==
    /\ ctx = ExampleContext
    /\ query = [method |-> "get_dependent_repos", repo_name |-> "core"]
    /\ out = <<"web", "api">>

\* C8 (as claimed): get_cross_repo_impact(repo_name) returns one entry per
\* pattern whose repos list contains repo_name, in order; each entry has the
\* pattern's key under pattern and every other field of the pattern's record.
C8_PatternIsKey ==
    query.method = "get_cross_repo_impact" =>
        LET Matches(e) == query.repo_name \in Range(Get(e.value, "repos", <<>>))
            matching == SelectSeq(ctx.cross_repo_patterns, Matches)
        IN  /\ Len(out) = Len(matching)
            /\ \A i \in DOMAIN matching :
                   /\ out[i].pattern = matching[i].key
                   /\ \A k \in DOMAIN matching[i].value \ {"pattern"} :
                          out[i][k] = matching[i].value[k]

\* C9 (as claimed): when the defaults file parses to a mapping, analyze
\* returns, and the first token of every command text that has one is in
\* custom_commands; empty and whitespace-only texts add nothing.
C9_BlankSkipped ==
    (history = <<"analyze">> /\ fs.defaults.kind = "doc" /\ fs.defaults.type = "object") =>
        /\ raised = "none"
        /\ \A cmd \in Range(CommandTexts(Get(fs.defaults.doc, "validation_commands", <<>>), 1)) :
               split(cmd) # <<>> => split(cmd)[1] \in custom_commands

\* The names a line starts with under the rule as claimed: an identifier at
\* the first character, the colon directly after it.
NameThenColon(line) ==
    {SubSeq(line, 1, i) : i \in
        {n \in 1..Len(line) :
            /\ line[1] \in IdStart
            /\ \A k \in 2..n : line[k] \in IdChar
            /\ n < Len(line) /\ line[n + 1] = ":"}}

\* The names a line starts with under the pattern of the code: whitespace
\* may stand between the identifier and the colon.
NameGapColon(line) ==
    {SubSeq(line, 1, i) : i \in
        {n \in 1..Len(line) :
            /\ line[1] \in IdStart
            /\ \A k \in 2..n : line[k] \in IdChar
            /\ \E j \in n..(Len(line) - 1) :
                   /\ \A k \in (n + 1)..j : line[k] \in Whitespace
                   /\ line[j + 1] = ":"}}

RECURSIVE ClaimedTargets(_)
ClaimedTargets(lines) ==
    IF lines = <<>> THEN <<>>
    ELSE (IF NameThenColon(Head(lines)) = {} THEN <<>>
          ELSE <<CHOOSE n \in NameThenColon(Head(lines)) : TRUE>>)
             \o ClaimedTargets(Tail(lines))

RECURSIVE PatternTargets(_)
PatternTargets(lines) ==
    IF lines = <<>> THEN <<>>
    ELSE (IF NameGapColon(Head(lines)) = {} THEN <<>>
          ELSE <<CHOOSE n \in NameGapColon(Head(lines)) : TRUE>>)
             \o PatternTargets(Tail(lines))

\* C10 (as claimed): the targets recorded from a Makefile are, in line
\* order, the identifiers that start a line and are directly followed by a
\* colon; make is in script_commands exactly when there is one.
C10_Original ==
    history = <<"detect_custom_scripts">> =>
        /\ custom_scripts.make_targets = ClaimedTargets(splitlines(fs.makefile.text))
        /\ make \in script_commands <=> custom_scripts.make_targets # <<>>

\* C10 (amended): the targets recorded from a Makefile are, in line order,
\* the identifiers that start a line and are followed, after optional
\* whitespace, by a colon; make is in script_commands exactly when there is
\* one.
C10_TargetRule ==
    history = <<"detect_custom_scripts">> =>
        /\ custom_scripts.make_targets = PatternTargets(splitlines(fs.makefile.text))
        /\ make \in script_commands <=> custom_scripts.make_targets # <<>>

C10_Witness ==
    /\ history = <<"detect_custom_scripts">>
    /\ fs.makefile.text = GapMakefile
    /\ custom_scripts.make_targets = <<serve, lint>>
    /\ make \in script_commands

====
